---- MODULE Spec2Model ----
(***************************************************************************)
(* A model of the algonaut core types (algonaut_core/src/lib.rs): the      *)
(* checksummed address codec, the multisig identity, and the canonical     *)
(* serialization of multisig signatures.  Every operation is a pure        *)
(* function; a specification draws the inputs of one group of operations   *)
(* in its initial states and its actions apply the operations, recording   *)
(* each call (function, argument, return value) in `calls`.                *)
(***************************************************************************)
EXTENDS Integers, Sequences, FiniteSets, TLC

VARIABLES
    addr,     \* Option<Address>: the Address value the caller holds
    text,     \* Option<String>: the address string the caller holds
    margs,    \* the arguments drawn for MultisigAddress::new
    msig,     \* Option<MultisigAddress>: the identity the caller holds
    msigsig,  \* Option<MultisigSignature>: the signature set the caller holds
    other,    \* Option<MultisigSignature>: a second partial signature set
    merged,   \* Option<MultisigSignature>: the signature set that merge returned
    node,     \* what the algod client answers: [params, broadcast], each a Result
    txns,     \* the signed transactions the caller holds
    sent,     \* the requests made to the algod client so far
    calls     \* the calls made so far: <<[fn, arg, ret], ...>>

vars == <<addr, text, margs, msig, msigsig, other, merged, node, txns, sent, calls>>

\* the values of the core types, and the state of the algod client
coreVars == <<addr, text, margs, msig, msigsig, other, merged>>
algodVars == <<node, txns, sent>>

(***************************************************************************)
(* Bounds of the model.                                                    *)
(***************************************************************************)
MaxCalls == 3      \* calls made in one behaviour
MaxStride == 2     \* strides of the patterned 32-byte inputs
MaxSeed == 3       \* seeds of the patterned 32-byte inputs
MaxCut == 3        \* characters cut from the end of an address string
MaxPad == 3        \* characters appended to an address string
NumKeys == 2       \* distinct public keys
MaxKeys == 3       \* length of the enumerated address lists
MaxOver == 1       \* the long address lists have up to 256 + MaxOver addresses
MaxVersion == 2    \* multisig versions 0..MaxVersion (and 255)
MaxSubsigs == 3    \* subsigs of a serialized MultisigSignature
NumSigs == 2       \* distinct signature values
MaxMergeKeys == 2  \* keys of the identities whose signature sets are merged
MaxRound == 2      \* the low rounds 0..MaxRound a node reports
MaxNear == 2       \* rounds this close to the last one that leaves room for + 1000
MaxTxns == 2       \* signed transactions broadcast as one group

(***************************************************************************)
(* Option values and results.                                              *)
(***************************************************************************)
None == [some |-> FALSE]
Some(v) == [some |-> TRUE, val |-> v]

Ok(v) == [ok |-> TRUE, val |-> v]
Err(msg) == [ok |-> FALSE, err |-> msg]

Call(f, a, r) == [fn |-> f, arg |-> a, ret |-> r]

(***************************************************************************)
(* Bytes and bits.                                                         *)
(***************************************************************************)
U8 == 256

Pow2(n) == <<1, 2, 4, 8, 16, 32, 64, 128>>[n + 1]

\* bit k (0-based, most significant bit of byte 1 first) of the byte string b
BitOfBytes(b, k) == (b[(k \div 8) + 1] \div Pow2(7 - (k % 8))) % 2

\* bit k (0-based) of the stream of 5-bit symbol values v
BitOfSyms(v, k) == (v[(k \div 5) + 1] \div Pow2(4 - (k % 5))) % 2

CHECKSUM_LEN == 4
HASH_LEN == 32

(***************************************************************************)
(* ChecksumAlg = sha2::Sha512Trunc256.  The digest is an external          *)
(* function: the model takes a deterministic function of the byte string   *)
(* with a 32-byte value, which agrees with SHA-512/256 on the vector that  *)
(* the repository's tests fix (tests::decode).                             *)
(***************************************************************************)
TestHash == [i \in 1..HASH_LEN |-> IF i = 1 THEN 254 ELSE 255]

TestDigest ==
    <<98, 179, 28, 93, 76, 129, 169, 139, 45, 185, 162, 146, 165, 245, 74, 87,
      101, 42, 30, 8, 104, 193, 164, 60, 29, 26, 71, 149, 66, 145, 58, 18>>

\* The state of the digest after the bytes buf[i..n] are absorbed in order, from
\* state h.  The bytes are taken block by block (step bytes at a time) only to
\* bound the depth of the evaluation: the value is that of the byte-wise fold.
RECURSIVE AbsorbRange(_, _, _, _, _)
AbsorbRange(buf, i, n, h, step) ==
    IF i > n \/ h < 0 THEN h
    ELSE IF step = 1
         THEN AbsorbRange(buf, i + 1, n, (h * 509 + buf[i] + 1) % 4194301, 1)
         ELSE LET m == IF i + step - 1 < n THEN i + step - 1 ELSE n
              IN  AbsorbRange(buf, m + 1, n, AbsorbRange(buf, i, m, h, step \div 32), step)

Absorb(buf) == AbsorbRange(buf, 1, Len(buf), 7, 1024)

Squeeze(h) ==
    [i \in 1..HASH_LEN |->
        CASE i % 4 = 0 -> h % 256
          [] i % 4 = 1 -> (h \div 256) % 256
          [] i % 4 = 2 -> (h \div 65536) % 256
          [] OTHER     -> (h * 31 + i) % 256]

Digest(buf) == IF buf = TestHash THEN TestDigest ELSE Squeeze(Absorb(buf))

\* &hashed[(HASH_LEN - CHECKSUM_LEN)..]
ChecksumOf(bytes) == SubSeq(Digest(bytes), HASH_LEN - CHECKSUM_LEN + 1, HASH_LEN)

(***************************************************************************)
(* data_encoding::BASE32_NOPAD: RFC 4648 alphabet, most significant bit    *)
(* first, no padding, non-zero trailing bits rejected.  A string is a      *)
(* sequence of one-character strings.                                      *)
(***************************************************************************)
Alphabet ==
    <<"A", "B", "C", "D", "E", "F", "G", "H", "I", "J", "K", "L", "M", "N", "O", "P",
      "Q", "R", "S", "T", "U", "V", "W", "X", "Y", "Z", "2", "3", "4", "5", "6", "7">>

IsSym(c) == \E v \in 1..Len(Alphabet) : Alphabet[v] = c

SymVal(c) == (CHOOSE v \in 1..Len(Alphabet) : Alphabet[v] = c) - 1

Base32Encode(b) ==
    LET nbits == 8 * Len(b)
        bit(k) == IF k < nbits THEN BitOfBytes(b, k) ELSE 0
    IN  [j \in 1..((nbits + 4) \div 5) |->
            Alphabet[1 + 16 * bit(5 * (j - 1)) + 8 * bit(5 * (j - 1) + 1)
                       + 4 * bit(5 * (j - 1) + 2) + 2 * bit(5 * (j - 1) + 3)
                       + bit(5 * (j - 1) + 4)]]

\* a decoder that ignores the bits after the last whole byte
Base32DecodeLax(s) ==
    LET nbits == 5 * Len(s)
        nbytes == nbits \div 8
    IN  IF nbits % 8 >= 5 THEN Err("Length")
        ELSE IF \E j \in 1..Len(s) : ~IsSym(s[j]) THEN Err("Symbol")
        ELSE LET v == [j \in 1..Len(s) |-> SymVal(s[j])]
             IN  Ok([j \in 1..nbytes |->
                        128 * BitOfSyms(v, 8 * (j - 1)) + 64 * BitOfSyms(v, 8 * (j - 1) + 1)
                        + 32 * BitOfSyms(v, 8 * (j - 1) + 2) + 16 * BitOfSyms(v, 8 * (j - 1) + 3)
                        + 8 * BitOfSyms(v, 8 * (j - 1) + 4) + 4 * BitOfSyms(v, 8 * (j - 1) + 5)
                        + 2 * BitOfSyms(v, 8 * (j - 1) + 6) + BitOfSyms(v, 8 * (j - 1) + 7)])

\* Ok(bytes), or Err of the kind of DecodeError
Base32Decode(s) ==
    LET nbits == 5 * Len(s)
        nbytes == nbits \div 8
        trail == nbits % 8
    IN  IF trail >= 5 THEN Err("Length")
        ELSE IF \E j \in 1..Len(s) : ~IsSym(s[j]) THEN Err("Symbol")
        ELSE LET v == [j \in 1..Len(s) |-> SymVal(s[j])]
             IN  IF \E k \in (8 * nbytes)..(nbits - 1) : BitOfSyms(v, k) = 1
                 THEN Err("Trailing")
                 ELSE Ok([j \in 1..nbytes |->
                        128 * BitOfSyms(v, 8 * (j - 1)) + 64 * BitOfSyms(v, 8 * (j - 1) + 1)
                        + 32 * BitOfSyms(v, 8 * (j - 1) + 2) + 16 * BitOfSyms(v, 8 * (j - 1) + 3)
                        + 8 * BitOfSyms(v, 8 * (j - 1) + 4) + 4 * BitOfSyms(v, 8 * (j - 1) + 5)
                        + 2 * BitOfSyms(v, 8 * (j - 1) + 6) + BitOfSyms(v, 8 * (j - 1) + 7)])

(***************************************************************************)
(* Address.                                                                *)
(***************************************************************************)
ErrBase32 == "Error decoding base32"
ErrWrongLength == "Input string is an invalid address. Wrong length"
ErrChecksum == "Input checksum did not validate"

\* Address::new
AddressNew(bytes) == bytes

\* from_string without the comparison of the checksum
FromStringNoChecksum(string) ==
    LET decoded == Base32Decode(string)
    IN  IF ~decoded.ok THEN Err(ErrBase32)
        ELSE IF Len(decoded.val) # HASH_LEN + CHECKSUM_LEN THEN Err(ErrWrongLength)
        ELSE Ok(AddressNew(SubSeq(decoded.val, 1, HASH_LEN)))

\* from_string with the length test `<` in place of `!=`
FromStringMinLength(string) ==
    LET decoded == Base32Decode(string)
    IN  IF ~decoded.ok THEN Err(ErrBase32)
        ELSE IF Len(decoded.val) < HASH_LEN + CHECKSUM_LEN THEN Err(ErrWrongLength)
        ELSE IF ChecksumOf(SubSeq(decoded.val, 1, HASH_LEN))
                    = SubSeq(decoded.val, HASH_LEN + 1, Len(decoded.val))
             THEN Ok(AddressNew(SubSeq(decoded.val, 1, HASH_LEN)))
             ELSE Err(ErrChecksum)

\* Address::from_string
FromString(string) ==
    LET decoded == Base32Decode(string)
    IN  IF ~decoded.ok THEN Err(ErrBase32)
        ELSE LET checksum_address == decoded.val
             IN  IF Len(checksum_address) # HASH_LEN + CHECKSUM_LEN THEN Err(ErrWrongLength)
                 ELSE LET address == SubSeq(checksum_address, 1, HASH_LEN)
                          checksum == SubSeq(checksum_address, HASH_LEN + 1,
                                             Len(checksum_address))
                      IN  IF ChecksumOf(address) = checksum
                          THEN Ok(AddressNew(address))
                          ELSE Err(ErrChecksum)

\* encode_string with the checksum taken from the front of the digest
EncodeStringFrontChecksum(self) ==
    Base32Encode(self \o SubSeq(Digest(self), 1, CHECKSUM_LEN))

\* Address::encode_string
EncodeString(self) == Base32Encode(self \o ChecksumOf(self))

(***************************************************************************)
(* The inputs of the address codec.                                        *)
(***************************************************************************)
\* 32-byte arrays: the test vector and arithmetic patterns
Pattern(a, b) == [i \in 1..HASH_LEN |-> (a * i + b) % U8]

HashInputs ==
    {TestHash} \cup {Pattern(a, 85 * k) : a \in 0..MaxStride, k \in 0..MaxSeed}

\* s cut or padded (with the zero symbol) to n characters
Resize(s, n) == [j \in 1..n |-> IF j <= Len(s) THEN s[j] ELSE "A"]

\* s with character p replaced by c
Replace(s, p, c) == [j \in 1..Len(s) |-> IF j = p THEN c ELSE s[j]]

EncodedLen == (8 * (HASH_LEN + CHECKSUM_LEN) + 4) \div 5

\* the last character of the hash part alone, the character shared by hash and
\* checksum, and the last two characters
MutPositions == {1, (8 * HASH_LEN) \div 5, (8 * HASH_LEN) \div 5 + 1,
                 EncodedLen - 1, EncodedLen}

MutChars == {"A", "E", "J", "7", "1", "a"}

TextInputs ==
    LET valid == {EncodeString(AddressNew(h)) : h \in HashInputs}
    IN  {Resize(s, n) : s \in valid,
                        n \in {0} \cup ((EncodedLen - MaxCut)..(EncodedLen + MaxPad))}
        \cup {Replace(s, p, c) : s \in valid, p \in MutPositions, c \in MutChars}

(***************************************************************************)
(* The address codec as a state machine: the caller starts with 32 bytes   *)
(* or with a string, and calls encode_string on the Address it holds or    *)
(* from_string on the string it holds.                                     *)
(***************************************************************************)
IdleCodec == addr = None /\ text = None
IdleMsig == margs = None /\ msig = None
IdleSig == msigsig = None /\ other = None /\ merged = None
IdleAlgod == node = None /\ txns = <<>> /\ sent = <<>>

InitCodec ==
    /\ \/ \E h \in HashInputs : addr = Some(AddressNew(h)) /\ text = None
       \/ \E s \in TextInputs : addr = None /\ text = Some(s)
    /\ IdleMsig /\ IdleSig
    /\ IdleAlgod
    /\ calls = <<>>

\* let s = addr.encode_string();
CallEncodeString ==
    /\ Len(calls) < MaxCalls
    /\ addr.some
    /\ LET s == EncodeString(addr.val)
       IN  /\ text' = Some(s)
           /\ calls' = Append(calls, Call("encode_string", addr.val, s))
    /\ UNCHANGED <<addr, margs, msig, msigsig, other, merged>>
    /\ UNCHANGED algodVars

\* let addr = Address::from_string(&text);
CallFromString ==
    /\ Len(calls) < MaxCalls
    /\ text.some
    /\ LET r == FromString(text.val)
       IN  /\ addr' = IF r.ok THEN Some(r.val) ELSE None
           /\ calls' = Append(calls, Call("from_string", text.val, r))
    /\ UNCHANGED <<text, margs, msig, msigsig, other, merged>>
    /\ UNCHANGED algodVars

NextCodec == CallEncodeString \/ CallFromString

SpecCodec == InitCodec /\ [][NextCodec]_vars

(***************************************************************************)
(* Properties of the address codec.                                        *)
(***************************************************************************)
\* the address string of tests::decode, and that of tests::decode_invalid_checksum
TestString ==
    <<"7", "3", "7", "7", "7", "7", "7", "7", "7", "7", "7", "7", "7", "7", "7", "7",
      "7", "7", "7", "7", "7", "7", "7", "7", "7", "7", "7", "7", "7", "7", "7", "7",
      "7", "7", "7", "7", "7", "7", "7", "7", "7", "7", "7", "7", "7", "7", "7", "7",
      "7", "7", "7", "U", "F", "E", "J", "2", "C", "I">>

TestStringInvalid == [TestString EXCEPT ![Len(TestString)] = "J"]

\* the positions of calls at which f was called
CallsOf(f) == {i \in 1..Len(calls) : calls[i].fn = f}

\* the position of the last call, if it was a call of f
LastCallOf(f) == {i \in CallsOf(f) : i = Len(calls)}

\* the positions at which f was called and g was called next
CallsThen(f, g) == {i \in CallsOf(f) : i < Len(calls) /\ calls[i + 1].fn = g}

\* C1: decoding the encoding of an Address never fails and returns the same 32
\* bytes: from_string(new(h).encode_string()) = Ok(new(h)).
C1_RoundTrip ==
    \A i \in CallsThen("encode_string", "from_string") :
        calls[i + 1].arg = calls[i].ret => calls[i + 1].ret = Ok(calls[i].arg)

C1_Witness ==
    \E i \in CallsThen("encode_string", "from_string") :
        /\ i = 1 /\ calls[i].arg \in HashInputs \ {TestHash}
        /\ calls[i + 1].arg = calls[i].ret
        /\ calls[i + 1].ret.ok

\* C2: from_string returns an Address only when the last 4 of the 36 decoded bytes
\* are the last 4 bytes of the digest of the first 32 (and the Address is those 32
\* bytes); a 36-byte input with any other last 4 bytes gets the checksum error.
C2_ChecksumDecides ==
    \A i \in CallsOf("from_string") :
        LET d == Base32Decode(calls[i].arg)
            is36 == d.ok /\ Len(d.val) = HASH_LEN + CHECKSUM_LEN
            matches == SubSeq(d.val, HASH_LEN + 1, HASH_LEN + CHECKSUM_LEN)
                         = SubSeq(Digest(SubSeq(d.val, 1, HASH_LEN)),
                                  HASH_LEN - CHECKSUM_LEN + 1, HASH_LEN)
        IN  /\ calls[i].ret.ok =>
                is36 /\ matches /\ calls[i].ret.val = SubSeq(d.val, 1, HASH_LEN)
            /\ (is36 /\ ~matches) => calls[i].ret = Err(ErrChecksum)

C2_Witness ==
    \E i \in CallsOf("from_string") :
        LET d == Base32Decode(calls[i].arg)
        IN  /\ d.ok /\ Len(d.val) = HASH_LEN + CHECKSUM_LEN
            /\ SubSeq(d.val, HASH_LEN + 1, HASH_LEN + CHECKSUM_LEN)
                 # SubSeq(Digest(SubSeq(d.val, 1, HASH_LEN)),
                          HASH_LEN - CHECKSUM_LEN + 1, HASH_LEN)
            /\ calls[i].ret = Err(ErrChecksum)

\* C3: a valid base-32 string that decodes to other than 36 bytes gets the
\* wrong-length error: never the checksum error, never an Address.
C3_WrongLength ==
    \A i \in CallsOf("from_string") :
        LET d == Base32Decode(calls[i].arg)
        IN  (d.ok /\ Len(d.val) # HASH_LEN + CHECKSUM_LEN)
                => calls[i].ret = Err(ErrWrongLength)

\* a string one byte too long, whose first 36 bytes are an address and its checksum
C3_Witness ==
    \E i \in CallsOf("from_string") :
        LET d == Base32Decode(calls[i].arg)
        IN  /\ d.ok /\ Len(d.val) = HASH_LEN + CHECKSUM_LEN + 1
            /\ ChecksumOf(SubSeq(d.val, 1, HASH_LEN))
                 = SubSeq(d.val, HASH_LEN + 1, HASH_LEN + CHECKSUM_LEN)
            /\ calls[i].ret = Err(ErrWrongLength)

\* C4: encode_string of the Address that from_string returned for s is s; the
\* string of tests::decode is accepted and the one ending in J is rejected.
C4_DecodeEncode ==
    /\ \A i \in CallsThen("from_string", "encode_string") :
          (calls[i].ret.ok /\ calls[i + 1].arg = calls[i].ret.val)
              => calls[i + 1].ret = calls[i].arg
    /\ \A i \in CallsOf("from_string") :
          /\ calls[i].arg = TestString => calls[i].ret = Ok(TestHash)
          /\ calls[i].arg = TestStringInvalid => ~calls[i].ret.ok

C4_Witness ==
    /\ Len(calls) = MaxCalls
    /\ calls[1] = Call("from_string", TestString, Ok(TestHash))
    /\ calls[2] = Call("encode_string", TestHash, TestString)

(***************************************************************************)
(* MultisigAddress.                                                        *)
(***************************************************************************)
ErrVersion == "Unknown msig version"
ErrThreshold == "Invalid threshold"

\* Ed25519PublicKey(address.0)
Ed25519PublicKey(bytes) == bytes

MultisigAddress(version, threshold, public_keys) ==
    [version |-> version, threshold |-> threshold, public_keys |-> public_keys]

\* new with the threshold tested before the version
MultisigAddressNewThresholdFirst(version, threshold, addresses) ==
    IF threshold = 0 \/ Len(addresses) = 0 \/ threshold > Len(addresses) % U8
    THEN Err(ErrThreshold)
    ELSE IF version # 1 THEN Err(ErrVersion)
    ELSE Ok(MultisigAddress(version, threshold,
                [i \in 1..Len(addresses) |-> Ed25519PublicKey(addresses[i])]))

\* MultisigAddress::new; `addresses.len() as u8` keeps the low 8 bits of the length
MultisigAddressNew(version, threshold, addresses) ==
    IF version # 1 THEN Err(ErrVersion)
    ELSE IF threshold = 0 \/ Len(addresses) = 0 \/ threshold > Len(addresses) % U8
    THEN Err(ErrThreshold)
    ELSE Ok(MultisigAddress(version, threshold,
                [i \in 1..Len(addresses) |-> Ed25519PublicKey(addresses[i])]))

\* b"MultisigAddr"
MultisigAddrPrefix == <<77, 117, 108, 116, 105, 115, 105, 103, 65, 100, 100, 114>>

\* the concatenation of the keys in list order (32 bytes each)
KeyBytes(public_keys) ==
    [j \in 1..(HASH_LEN * Len(public_keys)) |->
        public_keys[((j - 1) \div HASH_LEN) + 1][((j - 1) % HASH_LEN) + 1]]

\* address() over the keys sorted by their first byte
MultisigAddressAddressSorted(self) ==
    AddressNew(Digest(MultisigAddrPrefix \o <<self.version, self.threshold>>
                      \o KeyBytes(SortSeq(self.public_keys,
                                          LAMBDA a, b : a[1] < b[1]))))

\* MultisigAddress::address
MultisigAddressAddress(self) ==
    LET buf == MultisigAddrPrefix \o <<self.version, self.threshold>>
                 \o KeyBytes(self.public_keys)
    IN  AddressNew(Digest(buf))

(***************************************************************************)
(* The inputs of MultisigAddress::new.                                     *)
(***************************************************************************)
\* the Address of key k
KeyAddr(k) == AddressNew(Pattern(k, k))

KeyAddrs == {KeyAddr(k) : k \in 1..NumKeys}

\* every list of up to MaxKeys addresses
ShortLists == UNION {[1..n -> KeyAddrs] : n \in 0..MaxKeys}

\* lists of 255 and more addresses: the keys in rotation
LongLists ==
    {[i \in 1..n |-> KeyAddr((i % NumKeys) + 1)] : n \in (U8 - 1)..(U8 + MaxOver)}

VersionInputs == (0..MaxVersion) \cup {U8 - 1}

ThresholdInputs == (0..(MaxKeys + 1)) \cup {U8 - 1}

(***************************************************************************)
(* The multisig identity as a state machine: the caller draws the          *)
(* arguments, calls MultisigAddress::new, and calls address() on the       *)
(* identity it got.                                                        *)
(***************************************************************************)
InitMsig ==
    /\ \E v \in VersionInputs, t \in ThresholdInputs, a \in ShortLists \cup LongLists :
          margs = Some([version |-> v, threshold |-> t, addresses |-> a])
    /\ msig = None
    /\ IdleCodec /\ IdleSig
    /\ IdleAlgod
    /\ calls = <<>>

\* let msig = MultisigAddress::new(version, threshold, &addresses);
CallMultisigAddressNew ==
    /\ calls = <<>>
    /\ margs.some
    /\ LET r == MultisigAddressNew(margs.val.version, margs.val.threshold,
                                   margs.val.addresses)
       IN  /\ msig' = IF r.ok THEN Some(r.val) ELSE None
           /\ calls' = Append(calls, Call("new", margs.val, r))
    /\ UNCHANGED <<addr, text, margs, msigsig, other, merged>>
    /\ UNCHANGED algodVars

\* let addr = msig.address();
CallMultisigAddressAddress ==
    /\ Len(calls) < MaxCalls
    /\ msig.some
    /\ LET a == MultisigAddressAddress(msig.val)
       IN  /\ addr' = Some(a)
           /\ calls' = Append(calls, Call("address", msig.val, a))
    /\ UNCHANGED <<text, margs, msig, msigsig, other, merged>>
    /\ UNCHANGED algodVars

NextMsig == CallMultisigAddressNew \/ CallMultisigAddressAddress

SpecMsig == InitMsig /\ [][NextMsig]_vars

(***************************************************************************)
(* Properties of the multisig identity.                                    *)
(***************************************************************************)
\* C5: new returns the unsupported-version error for every version but 1, whatever
\* the threshold and the addresses; for version 1 it returns the invalid-threshold
\* error for threshold 0, no address, or a threshold above the number of
\* addresses; in these cases the caller gets no MultisigAddress.
C5_NewRejects ==
    \A i \in CallsOf("new") :
        LET a == calls[i].arg
        IN  /\ a.version # 1 => calls[i].ret = Err(ErrVersion)
            /\ (a.version = 1 /\ (a.threshold = 0 \/ Len(a.addresses) = 0
                                  \/ a.threshold > Len(a.addresses)))
                  => calls[i].ret = Err(ErrThreshold)
            /\ (a.version # 1 \/ a.threshold = 0 \/ Len(a.addresses) = 0
                  \/ a.threshold > Len(a.addresses))
                  => (i = Len(calls) => ~msig.some)

\* an unsupported version together with an invalid threshold: the version is named
C5_Witness ==
    \E i \in CallsOf("new") :
        /\ calls[i].arg.version # 1
        /\ calls[i].arg.threshold > Len(calls[i].arg.addresses)
        /\ calls[i].ret = Err(ErrVersion)
        /\ ~msig.some

\* C6: for version 1, n >= 1 addresses and 1 <= threshold <= n, new returns Ok
\* with version 1, that threshold, and the addresses' bytes in the same order.
C6_NewAccepts ==
    \A i \in CallsOf("new") :
        LET a == calls[i].arg
        IN  (a.version = 1 /\ Len(a.addresses) >= 1
                /\ 1 <= a.threshold /\ a.threshold <= Len(a.addresses))
              => calls[i].ret = Ok([version |-> 1, threshold |-> a.threshold,
                                    public_keys |-> a.addresses])

\* the address that MultisigAddress::address returns for keys in the order q
AddressOfOrder(m, q) == MultisigAddressAddress([m EXCEPT !.public_keys = q])

\* the permutations of n positions: all of them for a short list, the exchanges
\* of two of the first two and last two positions for a long one
PositionPerms(n) ==
    IF n <= MaxKeys + 1
    THEN {p \in [1..n -> 1..n] : \A x, y \in 1..n : p[x] = p[y] => x = y}
    ELSE {[x \in 1..n |-> IF x = i THEN j ELSE IF x = j THEN i ELSE x] :
            i, j \in {1, 2, n - 1, n}}

Reorder(keys, p) == [x \in 1..Len(keys) |-> keys[p[x]]]

\* C7 as stated: every permutation of the key positions (but the identity) of an
\* identity that new accepted gives another address than the one address()
\* returned (stated of the call just made: every call is the last one once).
C7_AnyPermutationDiffers ==
    \A i \in LastCallOf("address") :
        LET m == calls[i].arg
            n == Len(m.public_keys)
        IN  \A p \in PositionPerms(n) :
                p # [x \in 1..n |-> x]
                    => AddressOfOrder(m, Reorder(m.public_keys, p)) # calls[i].ret

\* C7, amended: address() is the digest of "MultisigAddr" ++ version ++ threshold
\* ++ keys in list order, and every permutation that changes the list of keys
\* gives another address.
C7_ReorderedListDiffers ==
    \A i \in LastCallOf("address") :
        LET m == calls[i].arg
            n == Len(m.public_keys)
        IN  /\ calls[i].ret
                 = Digest(MultisigAddrPrefix \o <<m.version, m.threshold>>
                          \o KeyBytes(m.public_keys))
            /\ \A p \in PositionPerms(n) :
                  Reorder(m.public_keys, p) # m.public_keys
                      => AddressOfOrder(m, Reorder(m.public_keys, p)) # calls[i].ret

\* address() was called on an identity of three keys, two of them equal
C7_Witness ==
    \E i \in CallsOf("address") :
        LET k == calls[i].arg.public_keys
        IN  /\ Len(k) = 3 /\ k[1] = k[2] /\ k[2] # k[3]
            /\ i > 1 /\ calls[i - 1].fn = "new" /\ calls[i - 1].ret = Ok(calls[i].arg)

(***************************************************************************)
(* Signature, MultisigSignature, MultisigSubsig and their serialization.   *)
(* A serde Serializer is modelled by the value it is asked to write: a map  *)
(* with its declared length and its entries in the order of the            *)
(* serialize_entry calls, a sequence, a byte string, or a u8.              *)
(***************************************************************************)
SignatureLen == 64

MultisigSignature(subsigs, threshold, version) ==
    [subsigs |-> subsigs, threshold |-> threshold, version |-> version]

\* sig is an Option<Signature>
MultisigSubsig(key, sig) == [key |-> key, sig |-> sig]

\* serializer.serialize_map(Some(len))
SerializeMap(len) == [ty |-> "map", len |-> len, entries |-> <<>>]

\* state.serialize_entry(key, value)
SerializeEntry(state, key, value) ==
    [state EXCEPT !.entries = Append(@, [key |-> key, value |-> value])]

\* serializer.serialize_bytes(&self.0[..])
SerializeBytes(bytes) == [ty |-> "bytes", val |-> bytes]

SerializeU8(n) == [ty |-> "u8", val |-> n]

\* a Vec<T> is written as a sequence of its elements in order
SerializeSeq(elems) == [ty |-> "seq", len |-> Len(elems), elems |-> elems]

\* a subsig that always declares two entries
SerializeMultisigSubsigLenTwo(self) ==
    LET state == SerializeEntry(SerializeMap(2), "pk", SerializeBytes(self.key))
    IN  IF self.sig.some
        THEN SerializeEntry(state, "s", SerializeBytes(self.sig.val))
        ELSE state

\* impl Serialize for MultisigSubsig
SerializeMultisigSubsig(self) ==
    LET len == IF self.sig.some THEN 2 ELSE 1
        state == SerializeEntry(SerializeMap(len), "pk", SerializeBytes(self.key))
    IN  IF self.sig.some
        THEN SerializeEntry(state, "s", SerializeBytes(self.sig.val))
        ELSE state

\* the entries in the order of the fields that sorts "thr" and "v" first
SerializeMultisigSignatureThresholdFirst(self) ==
    SerializeEntry(
        SerializeEntry(
            SerializeEntry(SerializeMap(3), "thr", SerializeU8(self.threshold)),
            "v", SerializeU8(self.version)),
        "subsig",
        SerializeSeq([j \in 1..Len(self.subsigs) |->
                         SerializeMultisigSubsig(self.subsigs[j])]))

\* impl Serialize for MultisigSignature
SerializeMultisigSignature(self) ==
    LET state0 == SerializeMap(3)
        state1 == SerializeEntry(state0, "subsig",
                      SerializeSeq([j \in 1..Len(self.subsigs) |->
                                       SerializeMultisigSubsig(self.subsigs[j])]))
        state2 == SerializeEntry(state1, "thr", SerializeU8(self.threshold))
        state3 == SerializeEntry(state2, "v", SerializeU8(self.version))
    IN  state3

(***************************************************************************)
(* The inputs of the serializer: signature sets over the keys 1..n in      *)
(* order, each position unsigned or signed with one of the signatures.     *)
(* The caller serializes the value it drew, or one of its subsigs, once.   *)
(***************************************************************************)
SigBytes(s) == [i \in 1..SignatureLen |-> (s * i + 7 * s) % U8]

SigInputs == {None} \cup {Some(SigBytes(s)) : s \in 1..NumSigs}

\* the subsig lists over the first n keys
SubsigLists(n) ==
    {[j \in 1..n |-> MultisigSubsig(Ed25519PublicKey(KeyAddr(j)), sg[j])] :
        sg \in [1..n -> SigInputs]}

InitSer ==
    /\ \E n \in 0..MaxSubsigs :
         \E ss \in SubsigLists(n), t \in (0..MaxSubsigs) \cup {U8 - 1}, v \in {1, U8 - 1} :
            msigsig = Some(MultisigSignature(ss, t, v))
    /\ other = None /\ merged = None
    /\ IdleCodec /\ IdleMsig
    /\ IdleAlgod
    /\ calls = <<>>

\* msigsig.serialize(serializer)
CallSerializeMultisigSignature ==
    /\ calls = <<>>
    /\ msigsig.some
    /\ calls' = Append(calls, Call("serialize", msigsig.val,
                                   SerializeMultisigSignature(msigsig.val)))
    /\ UNCHANGED <<addr, text, margs, msig, msigsig, other, merged>>
    /\ UNCHANGED algodVars

\* msigsig.subsigs[j].serialize(serializer)
CallSerializeMultisigSubsig ==
    /\ calls = <<>>
    /\ msigsig.some
    /\ \E j \in 1..Len(msigsig.val.subsigs) :
          calls' = Append(calls, Call("serialize_subsig", msigsig.val.subsigs[j],
                                      SerializeMultisigSubsig(msigsig.val.subsigs[j])))
    /\ UNCHANGED <<addr, text, margs, msig, msigsig, other, merged>>
    /\ UNCHANGED algodVars

NextSer == CallSerializeMultisigSignature \/ CallSerializeMultisigSubsig

SpecSer == InitSer /\ [][NextSer]_vars

(***************************************************************************)
(* Properties of the serialization.                                        *)
(***************************************************************************)
\* the keys of the entries written to a map, in order
EntryKeys(map) == [j \in 1..Len(map.entries) |-> map.entries[j].key]

\* what the serialization of one subsig must be: "pk" first and always, "s" iff
\* the signature is present, and as many entries as declared
SubsigShape(ss, out) ==
    /\ out.ty = "map"
    /\ out.len = Len(out.entries)
    /\ out.len = IF ss.sig.some THEN 2 ELSE 1
    /\ EntryKeys(out) = IF ss.sig.some THEN <<"pk", "s">> ELSE <<"pk">>
    /\ out.entries[1].value = [ty |-> "bytes", val |-> ss.key]
    /\ ss.sig.some => out.entries[2].value = [ty |-> "bytes", val |-> ss.sig.val]

\* C8: a MultisigSignature is written as a map declared with 3 entries, and its
\* entries are exactly "subsig" (the subsigs in stored order), "thr" (the
\* threshold) and "v" (the version), in that order.
C8_ThreeEntries ==
    \A i \in CallsOf("serialize") :
        LET m == calls[i].arg
            out == calls[i].ret
        IN  /\ out.ty = "map" /\ out.len = 3
            /\ EntryKeys(out) = <<"subsig", "thr", "v">>
            /\ out.entries[1].value.ty = "seq"
            /\ out.entries[1].value.len = Len(m.subsigs)
            /\ Len(out.entries[1].value.elems) = Len(m.subsigs)
            /\ \A j \in 1..Len(m.subsigs) :
                  out.entries[1].value.elems[j].entries[1].value.val = m.subsigs[j].key
            /\ out.entries[2].value = [ty |-> "u8", val |-> m.threshold]
            /\ out.entries[3].value = [ty |-> "u8", val |-> m.version]

\* a signature set with no subsig was serialized
C8_Witness ==
    \E i \in CallsOf("serialize") :
        /\ calls[i].arg.subsigs = <<>>
        /\ calls[i].arg.threshold # calls[i].arg.version
        /\ Len(calls[i].ret.entries) = 3

\* C9: a MultisigSubsig is written with "pk" always and first and "s" iff the
\* signature is present, the declared length (2 or 1) being the number of entries
\* written; so a 2-of-3 signature set signed by the first key alone has a
\* 2-entry map and then two 1-entry maps, in key order.
C9_SubsigEntries ==
    /\ \A i \in CallsOf("serialize_subsig") : SubsigShape(calls[i].arg, calls[i].ret)
    /\ \A i \in CallsOf("serialize") :
          LET m == calls[i].arg
              elems == calls[i].ret.entries[1].value.elems
          IN  /\ Len(elems) = Len(m.subsigs)
              /\ \A j \in 1..Len(m.subsigs) : SubsigShape(m.subsigs[j], elems[j])
              /\ (/\ m.threshold = 2 /\ Len(m.subsigs) = 3
                  /\ m.subsigs[1].sig.some
                  /\ ~m.subsigs[2].sig.some /\ ~m.subsigs[3].sig.some)
                    => /\ [j \in 1..3 |-> elems[j].len] = <<2, 1, 1>>
                       /\ [j \in 1..3 |-> Len(elems[j].entries)] = <<2, 1, 1>>

\* the 2-of-3 signature set signed by the first key alone was serialized
C9_Witness ==
    \E i \in CallsOf("serialize") :
        LET m == calls[i].arg
        IN  /\ m.threshold = 2 /\ m.version = 1 /\ Len(m.subsigs) = 3
            /\ m.subsigs[1].sig.some
            /\ ~m.subsigs[2].sig.some /\ ~m.subsigs[3].sig.some
            /\ Cardinality({m.subsigs[j].key : j \in 1..3}) = 3
            /\ calls[i].ret.entries[1].value.len = 3

(***************************************************************************)
(* Aggregation of multisig signatures: merge and is_complete.  The source  *)
(* files at hand declare MultisigSignature and MultisigSubsig only; the    *)
(* two operations are taken from the specification (section 4.4).          *)
(***************************************************************************)
ErrIdentityMismatch == "IdentityMismatch"

\* the key list of a signature set
SubsigKeys(m) == [j \in 1..Len(m.subsigs) |-> m.subsigs[j].key]

\* the positions of a signature set that carry a signature
SignedPositions(m) == {j \in 1..Len(m.subsigs) : m.subsigs[j].sig.some}

\* merge that keeps the first set's signatures and drops the second's
MergeKeepFirst(a, b) ==
    IF a.version # b.version \/ a.threshold # b.threshold
          \/ SubsigKeys(a) # SubsigKeys(b)
    THEN Err(ErrIdentityMismatch)
    ELSE Ok(a)

\* merge(a, b): for each position, whichever side has a signature present
Merge(a, b) ==
    IF a.version # b.version \/ a.threshold # b.threshold
          \/ SubsigKeys(a) # SubsigKeys(b)
    THEN Err(ErrIdentityMismatch)
    ELSE Ok(MultisigSignature(
                [j \in 1..Len(a.subsigs) |->
                    IF a.subsigs[j].sig.some THEN a.subsigs[j] ELSE b.subsigs[j]],
                a.threshold, a.version))

\* is_complete(multisig_sig): the count of present signatures >= threshold
IsComplete(m) == Cardinality(SignedPositions(m)) >= m.threshold

(***************************************************************************)
(* The inputs of merge: a signature set a over an identity of n keys, and  *)
(* a set b over the same identity or over one that differs from it in the  *)
(* version, the threshold or the key list.                                 *)
(***************************************************************************)
\* the signature sets that differ from a in the identity alone
OtherIdentity(a) ==
    {[a EXCEPT !.version = a.version + 1],
     [a EXCEPT !.threshold = a.threshold + 1],
     [a EXCEPT !.subsigs = SubSeq(a.subsigs, 1, Len(a.subsigs) - 1)],
     [a EXCEPT !.subsigs[1].key = Ed25519PublicKey(KeyAddr(Len(a.subsigs) + 1))]}

InitMerge ==
    /\ \E n \in 1..MaxMergeKeys :
         \E t \in 1..n, sa \in SubsigLists(n) :
            LET a == MultisigSignature(sa, t, 1)
            IN  /\ msigsig = Some(a)
                /\ \E b \in {MultisigSignature(sb, t, 1) : sb \in SubsigLists(n)}
                              \cup OtherIdentity(a) :
                      other = Some(b)
    /\ merged = None
    /\ IdleCodec /\ IdleMsig
    /\ IdleAlgod
    /\ calls = <<>>

\* let merged = merge(&msigsig, &other);
CallMerge ==
    /\ calls = <<>>
    /\ msigsig.some /\ other.some
    /\ LET r == Merge(msigsig.val, other.val)
       IN  /\ merged' = IF r.ok THEN Some(r.val) ELSE None
           /\ calls' = Append(calls, Call("merge", <<msigsig.val, other.val>>, r))
    /\ UNCHANGED <<addr, text, margs, msig, msigsig, other>>
    /\ UNCHANGED algodVars

\* let swapped = merge(&other, &msigsig);
CallMergeSwapped ==
    /\ Len(calls) = 1 /\ Len(calls) < MaxCalls
    /\ calls[1].fn = "merge"
    /\ LET r == Merge(other.val, msigsig.val)
       IN  calls' = Append(calls, Call("merge", <<other.val, msigsig.val>>, r))
    /\ UNCHANGED <<addr, text, margs, msig, msigsig, other, merged>>
    /\ UNCHANGED algodVars

\* is_complete(&merged)
CallIsComplete ==
    /\ Len(calls) = 2 /\ Len(calls) < MaxCalls
    /\ merged.some
    /\ calls' = Append(calls, Call("is_complete", merged.val, IsComplete(merged.val)))
    /\ UNCHANGED <<addr, text, margs, msig, msigsig, other, merged>>
    /\ UNCHANGED algodVars

NextMerge == CallMerge \/ CallMergeSwapped \/ CallIsComplete

SpecMerge == InitMerge /\ [][NextMerge]_vars

(***************************************************************************)
(* Properties of the aggregation.                                          *)
(***************************************************************************)
SameIdentity(a, b) ==
    /\ a.version = b.version /\ a.threshold = b.threshold
    /\ SubsigKeys(a) = SubsigKeys(b)

\* a and b carry the same signature wherever both are signed
Agree(a, b) ==
    \A j \in SignedPositions(a) \cap SignedPositions(b) :
        a.subsigs[j].sig = b.subsigs[j].sig

\* what merging x and y (of one identity) must give, in either order
MergeLaw(x, y, r1, r2) ==
    /\ r1.ok /\ r1 = r2
    /\ SameIdentity(r1.val, x)
    /\ SignedPositions(r1.val) = SignedPositions(x) \cup SignedPositions(y)
    /\ \A j \in SignedPositions(r1.val) :
          r1.val.subsigs[j].sig \in {x.subsigs[j].sig, y.subsigs[j].sig}
    /\ Len(calls) > 2 =>
          /\ calls[3].arg = r1.val
          /\ calls[3].ret
               = (Cardinality(SignedPositions(x) \cup SignedPositions(y)) >= x.threshold)

ErrUnknownSigner == "UnknownSigner"
ErrConflictingSignature == "ConflictingSignature"

\* new_multisig_signature(identity): one subsig per key, in the identity's order,
\* all signatures absent
NewMultisigSignature(identity) ==
    MultisigSignature(
        [j \in 1..Len(identity.public_keys) |->
            MultisigSubsig(identity.public_keys[j], None)],
        identity.threshold, identity.version)

\* the position of the subsig whose key equals public_key (the first one), or 0
LocateSubsig(m, public_key) ==
    LET found == {j \in 1..Len(m.subsigs) : m.subsigs[j].key = public_key}
    IN  IF found = {} THEN 0 ELSE CHOOSE j \in found : \A k \in found : j <= k

\* add_signature that stores the signature whatever the slot holds
AddSignatureOverwrite(m, public_key, signature) ==
    LET j == LocateSubsig(m, public_key)
    IN  IF j = 0 THEN Err(ErrUnknownSigner)
        ELSE Ok([m EXCEPT !.subsigs[j].sig = Some(signature)])

\* add_signature(multisig_sig, public_key, signature)
AddSignature(m, public_key, signature) ==
    LET j == LocateSubsig(m, public_key)
    IN  IF j = 0 THEN Err(ErrUnknownSigner)
        ELSE IF m.subsigs[j].sig.some
             THEN IF m.subsigs[j].sig.val = signature
                  THEN Ok(m)
                  ELSE Err(ErrConflictingSignature)
             ELSE Ok([m EXCEPT !.subsigs[j].sig = Some(signature)])

(***************************************************************************)
(* The caller holds an identity that MultisigAddress::new accepted, makes  *)
(* the empty signature set for it, and adds signatures: by keys of the     *)
(* identity and by a key that is not in it.                                *)
(***************************************************************************)
\* the identities of 1..MaxMergeKeys keys (equal keys included)
IdentityInputs ==
    LET lists == UNION {[1..n -> KeyAddrs] : n \in 1..MaxMergeKeys}
        args == {x \in (1..MaxMergeKeys) \X lists : x[1] <= Len(x[2])}
    IN  {MultisigAddressNew(1, x[1], x[2]).val : x \in args}

SignerInputs == {Ed25519PublicKey(KeyAddr(k)) : k \in 1..(NumKeys + 1)}

InitAddSig ==
    /\ \E id \in IdentityInputs : msig = Some(id)
    /\ margs = None
    /\ IdleCodec /\ IdleSig /\ IdleAlgod
    /\ calls = <<>>

\* let mut msigsig = new_multisig_signature(&msig);
CallNewMultisigSignature ==
    /\ calls = <<>>
    /\ msig.some
    /\ LET m == NewMultisigSignature(msig.val)
       IN  /\ msigsig' = Some(m)
           /\ calls' = Append(calls, Call("new_multisig_signature", msig.val, m))
    /\ UNCHANGED <<addr, text, margs, msig, other, merged>>
    /\ UNCHANGED algodVars

\* add_signature(&mut msigsig, public_key, signature)
CallAddSignature ==
    /\ Len(calls) < MaxCalls
    /\ msigsig.some
    /\ Len(calls) >= 1 /\ calls[1].fn = "new_multisig_signature"
    /\ \E pk \in SignerInputs, s \in 1..NumSigs :
          LET r == AddSignature(msigsig.val, pk, SigBytes(s))
          IN  /\ msigsig' = IF r.ok THEN Some(r.val) ELSE msigsig
              /\ calls' = Append(calls,
                     Call("add_signature",
                          [sig |-> msigsig.val, public_key |-> pk, signature |-> SigBytes(s)],
                          r))
    /\ UNCHANGED <<addr, text, margs, msig, other, merged>>
    /\ UNCHANGED algodVars

NextAddSig == CallNewMultisigSignature \/ CallAddSignature

SpecAddSig == InitAddSig /\ [][NextAddSig]_vars

(***************************************************************************)
(* Properties of add_signature.                                            *)
(***************************************************************************)
\* the value the caller holds after call i
HeldAfter(i) == IF calls[i].ret.ok THEN calls[i].ret.val ELSE calls[i].arg.sig

\* C11: after any sequence of add_signature calls on the signature set made for
\* an identity, the subsigs still have the identity's keys in the identity's
\* order (and its threshold and version); a key not in the list gets
\* UnknownSigner and the value is unchanged; the same key with the signature it
\* already has is a success that changes nothing; another signature for a signed
\* key gets ConflictingSignature and the stored signature stays.
C11_AddSignatureKeepsSet ==
    /\ (msigsig.some /\ msig.some) =>
          /\ SubsigKeys(msigsig.val) = msig.val.public_keys
          /\ msigsig.val.threshold = msig.val.threshold
          /\ msigsig.val.version = msig.val.version
    /\ \A i \in CallsOf("add_signature") :
          LET a == calls[i].arg
              r == calls[i].ret
              at == {j \in 1..Len(a.sig.subsigs) : a.sig.subsigs[j].key = a.public_key}
              stored == {a.sig.subsigs[j].sig : j \in at} \ {None}
          IN  /\ i = Len(calls) => msigsig = Some(HeldAfter(i))
              /\ i < Len(calls) => calls[i + 1].arg.sig = HeldAfter(i)
              /\ at = {} => r = Err(ErrUnknownSigner)
              /\ Some(a.signature) \in stored => r = Ok(a.sig)
              /\ (stored # {} /\ Some(a.signature) \notin stored)
                    => r = Err(ErrConflictingSignature)
              /\ r.ok =>
                    /\ at # {}
                    /\ SubsigKeys(r.val) = SubsigKeys(a.sig)
                    /\ \E j \in at : r.val.subsigs[j].sig = Some(a.signature)
                    /\ \A j \in 1..Len(a.sig.subsigs) :
                          \/ r.val.subsigs[j] = a.sig.subsigs[j]
                          \/ j \in at /\ ~a.sig.subsigs[j].sig.some

\* a key signed, then offered another signature: the second call is refused and
\* the first signature is still the one stored
C11_Witness ==
    /\ Len(calls) = 3
    /\ calls[2].fn = "add_signature" /\ calls[3].fn = "add_signature"
    /\ calls[2].ret.ok
    /\ calls[3].arg.public_key = calls[2].arg.public_key
    /\ calls[3].arg.signature # calls[2].arg.signature
    /\ calls[3].ret = Err(ErrConflictingSignature)
    /\ msigsig = Some(calls[2].ret.val)

(***************************************************************************)
(* u64, kept as four 16-bit limbs (least significant first), and Round.    *)
(***************************************************************************)
Limb == 65536

\* the u64 of a small number (below 2^31)
U64(n) == <<n % Limb, (n \div Limb) % Limb, 0, 0>>

\* u64::MAX - k, for k below 2^16
U64BelowMax(k) == <<Limb - 1 - k, Limb - 1, Limb - 1, Limb - 1>>

\* u64::overflowing_add(a, n) for a small n: the wrapped sum and the carry out
U64OverflowingAdd(a, n) ==
    LET s1 == a[1] + n
        s2 == a[2] + (s1 \div Limb)
        s3 == a[3] + (s2 \div Limb)
        s4 == a[4] + (s3 \div Limb)
    IN  [val |-> <<s1 % Limb, s2 % Limb, s3 % Limb, s4 % Limb>>,
         overflow |-> s4 >= Limb]

\* a < b on u64
U64Less(a, b) ==
    \E j \in 1..4 : a[j] < b[j] /\ \A k \in (j + 1)..4 : a[k] = b[k]

\* b - a on u64, for a <= b
U64Minus(b, a) ==
    LET d1 == b[1] - a[1]
        w1 == IF d1 < 0 THEN 1 ELSE 0
        d2 == b[2] - a[2] - w1
        w2 == IF d2 < 0 THEN 1 ELSE 0
        d3 == b[3] - a[3] - w2
        w3 == IF d3 < 0 THEN 1 ELSE 0
        d4 == b[4] - a[4] - w3
    IN  <<(d1 + Limb) % Limb, (d2 + Limb) % Limb, (d3 + Limb) % Limb, (d4 + Limb) % Limb>>

\* impl Add<u64> for Round: Round(self.0 + rhs).  The + of u64 panics on
\* overflow where the build checks for it and wraps where it does not; None
\* is the panic.
RoundAdd(round, rhs, overflow_checks) ==
    LET r == U64OverflowingAdd(round, rhs)
    IN  IF r.overflow /\ overflow_checks THEN None ELSE Some(r.val)

(***************************************************************************)
(* Algod: the calls that go through to the client.                         *)
(***************************************************************************)
ClientError(msg) == [type |-> "ClientError", msg |-> msg]

\* the conversion `?` applies to an error: From::from into AlgonautError
AlgonautErrorFrom(e) ==
    IF e.type = "AlgonautError" THEN e ELSE [type |-> "AlgonautError", source |-> e]

\* a request made to the client
Request(op, body) == [op |-> op, body |-> body]

\* a call that did not return: the thread panicked
Panicked == [ok |-> FALSE, panic |-> "attempt to add with overflow"]

\* Algod::suggested_transaction_params
SuggestedTransactionParams(client, overflow_checks) ==
    LET answer == client.params
        sent_ == <<Request("transaction_params", <<>>)>>
    IN  IF ~answer.ok
        THEN [sent |-> sent_, ret |-> Err(AlgonautErrorFrom(answer.err))]
        ELSE LET params == answer.val
                 last_valid == RoundAdd(params.last_round, 1000, overflow_checks)
             IN  IF ~last_valid.some
                 THEN [sent |-> sent_, ret |-> Panicked]
                 ELSE [sent |-> sent_,
                       ret |-> Ok([genesis_id |-> params.genesis_id,
                                   genesis_hash |-> params.genesis_hash,
                                   consensus_version |-> params.consensus_version,
                                   fee |-> params.fee,
                                   min_fee |-> params.min_fee,
                                   first_valid |-> params.last_round,
                                   last_valid |-> last_valid.val])]

\* Algod::broadcast_raw_transaction
BroadcastRawTransaction(client, rawtxn) ==
    [sent |-> <<Request("broadcast_raw_transaction", rawtxn)>>,
     ret |-> IF client.broadcast.ok
             THEN Ok(client.broadcast.val)
             ELSE Err(AlgonautErrorFrom(client.broadcast.err))]

\* the result of `?` on a Result whose error is converted into AlgonautError
Try(result) == IF result.ok THEN result ELSE Err(AlgonautErrorFrom(result.err))

\* Algod::broadcast_signed_transaction
BroadcastSignedTransaction(client, txn) ==
    LET packed == Try(txn.msg_pack)
    IN  IF ~packed.ok
        THEN [sent |-> <<>>, ret |-> packed]
        ELSE LET r == BroadcastRawTransaction(client, packed.val)
             IN  [sent |-> r.sent, ret |-> Try(r.ret)]

\* [u8]::concat of a list of byte strings
RECURSIVE Concat(_)
Concat(bytes) ==
    IF bytes = <<>> THEN <<>> ELSE Head(bytes) \o Concat(Tail(bytes))

\* for t in txns { bytes.push(t.to_msg_pack()?) }, from transaction i on
RECURSIVE PushAll(_, _, _)
PushAll(txns_, i, bytes) ==
    IF i > Len(txns_) THEN Ok(bytes)
    ELSE LET packed == Try(txns_[i].msg_pack)
         IN  IF ~packed.ok THEN packed
             ELSE PushAll(txns_, i + 1, Append(bytes, packed.val))

\* broadcast_signed_transactions that sends every transaction as soon as it is
\* serialized
RECURSIVE BroadcastSignedTransactionsOneByOne(_, _)
BroadcastSignedTransactionsOneByOne(client, txns_) ==
    IF txns_ = <<>> THEN [sent |-> <<>>, ret |-> Try(client.broadcast)]
    ELSE LET first == BroadcastSignedTransaction(client, Head(txns_))
             rest == BroadcastSignedTransactionsOneByOne(client, Tail(txns_))
         IN  IF ~first.ret.ok THEN first
             ELSE [sent |-> first.sent \o rest.sent, ret |-> rest.ret]

\* Algod::broadcast_signed_transactions
BroadcastSignedTransactions(client, txns_) ==
    LET bytes == PushAll(txns_, 1, <<>>)
    IN  IF ~bytes.ok
        THEN [sent |-> <<>>, ret |-> bytes]
        ELSE LET r == BroadcastRawTransaction(client, Concat(bytes.val))
             IN  [sent |-> r.sent, ret |-> Try(r.ret)]

(***************************************************************************)
(* The caller has an Algod whose client answers in some way, and holds     *)
(* signed transactions, each of which to_msg_pack serializes or refuses.   *)
(***************************************************************************)
\* what a node reports as last_round: low rounds, the rounds around the last
\* one that leaves room for + 1000, and u64::MAX
RoundInputs ==
    {U64(n) : n \in 0..MaxRound}
        \cup {U64BelowMax(k) : k \in (1000 - MaxNear)..(1000 + MaxNear)}
        \cup {U64BelowMax(0)}

ParamsInputs ==
    {[genesis_id |-> "mainnet-v1.0", genesis_hash |-> Pattern(1, 1),
      consensus_version |-> "v1", fee |-> U64(0), min_fee |-> U64(1000),
      last_round |-> r] : r \in RoundInputs}
        \cup {[genesis_id |-> "testnet-v1.0", genesis_hash |-> Pattern(2, 2),
               consensus_version |-> "v2", fee |-> U64(1), min_fee |-> U64(2000),
               last_round |-> r] : r \in RoundInputs}

ClientErrors == {ClientError("timeout"), ClientError("rejected")}

ParamsAnswers == {Ok(v) : v \in ParamsInputs} \cup {Err(e) : e \in ClientErrors}

BroadcastAnswers == {Ok([tx_id |-> "TXID"])} \cup {Err(e) : e \in ClientErrors}

\* a signed transaction, as far as Algod looks at it: what to_msg_pack gives
TxnInputs ==
    {[msg_pack |-> Ok(<<1>>)], [msg_pack |-> Ok(<<2, 3>>)],
     [msg_pack |-> Err([type |-> "EncodeError", msg |-> "depth"])],
     [msg_pack |-> Err([type |-> "EncodeError", msg |-> "length"])]}

TxnLists == UNION {[1..n -> TxnInputs] : n \in 0..MaxTxns}

InitAlgod ==
    /\ \E p \in ParamsAnswers, b \in BroadcastAnswers :
          node = Some([params |-> p, broadcast |-> b])
    /\ txns \in TxnLists
    /\ sent = <<>>
    /\ IdleCodec /\ IdleMsig /\ IdleSig
    /\ calls = <<>>

\* algod.suggested_transaction_params().await, in a build with or without
\* overflow checks
CallSuggestedTransactionParams ==
    /\ calls = <<>>
    /\ node.some
    /\ \E overflow_checks \in BOOLEAN :
          LET r == SuggestedTransactionParams(node.val, overflow_checks)
          IN  /\ sent' = sent \o r.sent
              /\ calls' = Append(calls, Call("suggested_transaction_params", node.val, r.ret))
    /\ UNCHANGED <<node, txns>>
    /\ UNCHANGED coreVars

\* algod.broadcast_signed_transactions(&txns).await
CallBroadcastSignedTransactions ==
    /\ calls = <<>>
    /\ node.some
    /\ LET r == BroadcastSignedTransactions(node.val, txns)
       IN  /\ sent' = sent \o r.sent
           /\ calls' = Append(calls, Call("broadcast_signed_transactions", txns, r.ret))
    /\ UNCHANGED <<node, txns>>
    /\ UNCHANGED coreVars

\* algod.broadcast_signed_transaction(&txns[i]).await
CallBroadcastSignedTransaction ==
    /\ calls = <<>>
    /\ node.some
    /\ \E i \in 1..Len(txns) :
          LET r == BroadcastSignedTransaction(node.val, txns[i])
          IN  /\ sent' = sent \o r.sent
              /\ calls' = Append(calls, Call("broadcast_signed_transaction", txns[i], r.ret))
    /\ UNCHANGED <<node, txns>>
    /\ UNCHANGED coreVars

NextAlgod ==
    \/ CallSuggestedTransactionParams
    \/ CallBroadcastSignedTransactions
    \/ CallBroadcastSignedTransaction

SpecAlgod == InitAlgod /\ [][NextAlgod]_vars

(***************************************************************************)
(* Properties of Algod.                                                    *)
(***************************************************************************)
\* C12: suggested_transaction_params makes one transaction_params call to the
\* client; when the client answers with parameters it returns first_valid =
\* last_round and last_valid = last_round + 1000 with no wrapped value
\* (last_valid - first_valid = 1000 and last_valid > first_valid), the other
\* five fields copied; when the client answers with an error it returns that
\* error.
C12_SuggestedParams ==
    \A i \in CallsOf("suggested_transaction_params") :
        LET answer == calls[i].arg.params
            r == calls[i].ret
        IN  /\ sent = <<Request("transaction_params", <<>>)>>
            /\ ~answer.ok => r = Err(AlgonautErrorFrom(answer.err))
            /\ answer.ok =>
                  /\ r.ok
                  /\ r.val.first_valid = answer.val.last_round
                  /\ U64Less(r.val.first_valid, r.val.last_valid)
                  /\ U64Minus(r.val.last_valid, r.val.first_valid) = U64(1000)
                  /\ r.val.genesis_id = answer.val.genesis_id
                  /\ r.val.genesis_hash = answer.val.genesis_hash
                  /\ r.val.consensus_version = answer.val.consensus_version
                  /\ r.val.fee = answer.val.fee
                  /\ r.val.min_fee = answer.val.min_fee

\* the rounds that leave room for + 1000
RoomForWindow(round) == ~U64OverflowingAdd(round, 1000).overflow

\* what holds of suggested_transaction_params: C12 for the rounds that leave
\* room, and for the others a panic or a last_valid below first_valid
C12_SuggestedParamsWithRoom ==
    \A i \in CallsOf("suggested_transaction_params") :
        LET answer == calls[i].arg.params
            r == calls[i].ret
        IN  /\ sent = <<Request("transaction_params", <<>>)>>
            /\ ~answer.ok => r = Err(AlgonautErrorFrom(answer.err))
            /\ (answer.ok /\ RoomForWindow(answer.val.last_round)) =>
                  /\ r.ok
                  /\ r.val.first_valid = answer.val.last_round
                  /\ U64Less(r.val.first_valid, r.val.last_valid)
                  /\ U64Minus(r.val.last_valid, r.val.first_valid) = U64(1000)
                  /\ \A f \in DOMAIN answer.val \ {"last_round"} : r.val[f] = answer.val[f]
            /\ (answer.ok /\ ~RoomForWindow(answer.val.last_round)) =>
                  \/ r = Panicked
                  \/ r.ok /\ U64Less(r.val.last_valid, r.val.first_valid)

\* the node reports the last round of all and the call comes back with a
\* last_valid that wrapped
C12_WrappedReached ==
    \E i \in CallsOf("suggested_transaction_params") :
        /\ calls[i].arg.params.ok
        /\ calls[i].arg.params.val.last_round = U64BelowMax(0)
        /\ calls[i].ret.ok
        /\ calls[i].ret.val.last_valid = U64(999)

\* the first transaction of the slice that to_msg_pack refuses, or 0
FirstRefused(txns_) ==
    LET bad == {j \in 1..Len(txns_) : ~txns_[j].msg_pack.ok}
    IN  IF bad = {} THEN 0 ELSE CHOOSE j \in bad : \A k \in bad : j <= k

\* the bytes of the first n serialized transactions, counted
RECURSIVE PackedLen(_, _)
PackedLen(txns_, n) ==
    IF n = 0 THEN 0 ELSE PackedLen(txns_, n - 1) + Len(txns_[n].msg_pack.val)

\* payload is the serialized transactions one after the other, in slice order
InSliceOrder(payload, txns_) ==
    /\ Len(payload) = PackedLen(txns_, Len(txns_))
    /\ \A j \in 1..Len(txns_) :
          SubSeq(payload, PackedLen(txns_, j - 1) + 1, PackedLen(txns_, j))
              = txns_[j].msg_pack.val

\* what the caller gets when the client is asked to broadcast
Answered(client) ==
    IF client.broadcast.ok THEN Ok(client.broadcast.val)
    ELSE Err(AlgonautErrorFrom(client.broadcast.err))

\* C13: broadcast_signed_transactions serializes in slice order and, when a
\* serialization fails, returns that error and makes no request to the client;
\* when all succeed it makes exactly one broadcast_raw_transaction request, with
\* the serialized transactions concatenated in input order, and returns the
\* client's response or error.  broadcast_signed_transaction makes no request
\* when serialization fails.
C13_AllOrNothing ==
    /\ \A i \in CallsOf("broadcast_signed_transactions") :
          LET group == calls[i].arg
              r == calls[i].ret
              j == FirstRefused(group)
          IN  /\ j # 0 =>
                    /\ sent = <<>>
                    /\ r = Err(AlgonautErrorFrom(group[j].msg_pack.err))
              /\ j = 0 =>
                    /\ Len(sent) = 1
                    /\ sent[1].op = "broadcast_raw_transaction"
                    /\ InSliceOrder(sent[1].body, group)
                    /\ r = Answered(node.val)
    /\ \A i \in CallsOf("broadcast_signed_transaction") :
          LET txn == calls[i].arg
              r == calls[i].ret
          IN  /\ ~txn.msg_pack.ok =>
                    /\ sent = <<>>
                    /\ r = Err(AlgonautErrorFrom(txn.msg_pack.err))
              /\ txn.msg_pack.ok =>
                    /\ sent = <<Request("broadcast_raw_transaction", txn.msg_pack.val)>>
                    /\ r = Answered(node.val)

\* a group whose first transaction serializes and whose last does not: the
\* call returns the error and nothing was sent
C13_Witness ==
    \E i \in CallsOf("broadcast_signed_transactions") :
        /\ Len(calls[i].arg) = MaxTxns
        /\ calls[i].arg[1].msg_pack.ok
        /\ FirstRefused(calls[i].arg) = MaxTxns
        /\ ~calls[i].ret.ok
        /\ sent = <<>>

\* a group of transactions of different lengths that all serialize: one
\* request carries them all
C13_WitnessSent ==
    \E i \in CallsOf("broadcast_signed_transactions") :
        /\ Len(calls[i].arg) = MaxTxns
        /\ FirstRefused(calls[i].arg) = 0
        /\ calls[i].arg[1] # calls[i].arg[MaxTxns]
        /\ Len(sent) = 1
        /\ calls[i].ret.ok

(***************************************************************************)
(* The whole library: a caller of any group of operations.                 *)
(***************************************************************************)
Init == InitCodec \/ InitMsig \/ InitSer \/ InitMerge \/ InitAddSig \/ InitAlgod

Next == NextCodec \/ NextMsig \/ NextSer \/ NextMerge \/ NextAddSig \/ NextAlgod

Spec == Init /\ [][Next]_vars

====
